---- MODULE Spec2Model ----
(***************************************************************************)
(* Model of src/app.py, the "Agntcy Repo Insights" dashboard script.       *)
(*                                                                         *)
(* Time.  A timestamp is an integer number of ticks since the midnight    *)
(* that starts a Monday; a day has TicksPerDay ticks and a week            *)
(* DaysPerWeek days, so the pandas "W" period (Monday..Sunday) of tick t   *)
(* is t \div (TicksPerDay * DaysPerWeek).  A calendar date (what           *)
(* st.date_input returns) is a day number; pd.to_datetime of a date is the *)
(* first tick of that day.                                                 *)
(*                                                                         *)
(* Cells.  Every cell of a data frame is a record [k, wall, s]:            *)
(*   k = "str"  raw CSV text of a timestamp "....Z" with wall time wall    *)
(*   k = "bad"  raw CSV text that does not parse as a timestamp (or NaN)   *)
(*   k = "tsz"  a tz-aware (UTC) Timestamp with wall time wall             *)
(*   k = "ts"   a tz-naive Timestamp with wall time wall                   *)
(*   k = "nat"  NaT                                                        *)
(*   k = "cat"  a text value s (repository name, user login)               *)
(*   k = "nan"  a missing text value                                       *)
(* A data frame is [cols, rows]: the set of column names and the sequence  *)
(* of rows, each row [idx, cells] with idx the pandas index label and      *)
(* cells a function from cols to cells.  pd.DataFrame() is NoFrame.        *)
(***************************************************************************)
EXTENDS Integers, Sequences, FiniteSets, TLC

VARIABLES
    pc,             \* position of the script run, or of a harness
    \* the script's module globals
    data,           \* load_all_tables(): table name -> data frame
    selected_repo,  \* the sidebar's repository selection
    min_date,       \* earliest timestamp found in the loaded tables
    max_date,       \* latest timestamp found in the loaded tables
    date_range,     \* the sidebar's (start, end) dates
    filtered,       \* table name -> filter_df(data[name], date_col)
    figs,           \* table name -> the weekly figure drawn for it
    top_charts,     \* chart name -> the ranking drawn (<<>>: st.info "No ... data")
    tops,           \* top_committers, top_issuers and top_prs of the summary
    contrib_df,     \* the contributor summary table
    \* what outlives a script run
    bucket,         \* the CSV objects in the S3 bucket: table name -> data frame
    cache,          \* st.cache_data's entry for load_all_tables
    fetches,        \* number of S3 get_object calls made so far
    renders,        \* number of script runs started so far
    repo_widget,    \* session state of the repository selectbox
    range_widget,   \* session state of the date input
    \* inputs and outputs of the functions run on their own
    df_in,          \* a data frame handed to filter_df / the plot function
    df_out,         \* filter_df(df_in, date_col)
    df_out2,        \* filter_df(df_out, date_col)
    fig,            \* plot_weekly_cumulative_plotly(df_in, date_col)
    col_in,         \* a column handed to the ranking
    ranking         \* value_counts().nlargest(10).sort_values() of col_in

scriptVars == <<data, min_date, max_date, filtered, figs, top_charts, tops, contrib_df>>
sessionVars == <<bucket, cache, fetches, renders, repo_widget, range_widget>>
harnessVars == <<df_in, df_out, df_out2, fig, col_in, ranking>>
vars == <<pc, selected_repo, date_range, scriptVars, sessionVars, harnessVars>>

----------------------------------------------------------------------------
(* Bounds *)

MaxRows == 2          \* rows of an enumerated data frame
MaxDay == 1           \* enumerated timestamps fall on days 0..MaxDay
MaxPlotRows == 3      \* rows of a data frame handed to the plot function
MaxWeek == 2          \* plotted timestamps fall in weeks 0..MaxWeek
MaxTail == 3          \* free cells of a ranked column, beside the fixed block
MaxContribTail == 2   \* free rows of a table handed to the contributor summary
MaxRenders == 3       \* script runs of one session

(* Program constants *)

TicksPerDay == 2      \* resolution of a timestamp within a day
DaysPerWeek == 7      \* to_period("W")
TopN == 10            \* nlargest(10)
FarFuture == 100000   \* pd.Timestamp("2100-01-01")
FarPast == 0 - 100000   \* pd.Timestamp("1900-01-01")

----------------------------------------------------------------------------
(* Cells *)

Cell(k, w, s) == [k |-> k, wall |-> w, s |-> s]
Str(w) == Cell("str", w, "")
Bad == Cell("bad", 0, "")
TsZ(w) == Cell("tsz", w, "")
Ts(w) == Cell("ts", w, "")
NaT == Cell("nat", 0, "")
Cat(s) == Cell("cat", 0, s)
NaN == Cell("nan", 0, "")

NoFrame == [cols |-> {}, rows |-> <<>>]

\* no figure drawn yet
NoFigure == [title |-> "", weekly |-> <<>>, cumulative |-> <<>>]

\* the summary's top-10 sets before they are computed
NoTops == [committers |-> {}, issuers |-> {}, prs |-> {}]

\* TABLES
TableNames == {"commits", "stars", "forks", "issues", "pr"}
ChartNames == {"repos_by_stars", "repos_by_commits", "users_by_commits",
               "users_by_prs", "users_by_issues"}

\* the script's globals before the script has run
ScriptIdle ==
    /\ data = [t \in TableNames |-> NoFrame]
    /\ min_date = 0
    /\ max_date = 0
    /\ filtered = [t \in TableNames |-> NoFrame]
    /\ figs = [t \in TableNames |-> NoFigure]
    /\ top_charts = [c \in ChartNames |-> <<>>]
    /\ tops = NoTops
    /\ contrib_df = <<>>

\* a fresh process and browser session
SessionIdle ==
    /\ bucket = [t \in TableNames |-> NoFrame]
    /\ cache = [filled |-> FALSE, value |-> [t \in TableNames |-> NoFrame]]
    /\ fetches = 0
    /\ renders = 0
    /\ repo_widget = [touched |-> FALSE, value |-> "All"]
    /\ range_widget = [touched |-> FALSE, value |-> <<0, 0>>]

\* df.empty: an axis of length 0
empty(df) == df.cols = {} \/ Len(df.rows) = 0

\* a parse that accepts raw text only: an already parsed Timestamp becomes NaT
to_datetime_text_only(c) ==
    IF c.k = "str" THEN [k |-> "tsz", wall |-> c.wall, s |-> ""]
    ELSE [k |-> "nat", wall |-> 0, s |-> ""]

\* pd.to_datetime(value, errors="coerce") of one cell
to_datetime(c) ==
    CASE c.k = "str" -> TsZ(c.wall)
      [] c.k \in {"tsz", "ts"} -> c
      [] OTHER -> NaT

\* Series.dt.tz_localize(None) of one cell: drops the zone, keeps wall time
tz_localize_none(c) ==
    IF c.k = "tsz" THEN Ts(c.wall) ELSE c

\* pd.to_datetime(date): the midnight that starts the day
date_to_datetime(d) == d * TicksPerDay

\* Timestamp.date(): the day a tick falls on
date_of(t) == t \div TicksPerDay

\* an exclusive upper end
ts_lt(c, t) == c.k = "ts" /\ c.wall < t

\* a timestamp comparison with NaT is False
ts_ge(c, t) == c.k = "ts" /\ c.wall >= t
ts_le(c, t) == c.k = "ts" /\ c.wall <= t

\* the column's cells, in row order
Column(df, col) == [i \in 1..Len(df.rows) |-> df.rows[i].cells[col]]

\* df[col] = series
SetColumn(df, col, series) ==
    [df EXCEPT !.rows = [i \in 1..Len(df.rows) |->
        [df.rows[i] EXCEPT !.cells = [@ EXCEPT ![col] = series[i]]]]]

\* pd.to_datetime(series, errors="coerce")
to_datetime_series(series) == [i \in 1..Len(series) |-> to_datetime(series[i])]

\* series.dt.tz_localize(None)
tz_localize_none_series(series) ==
    [i \in 1..Len(series) |-> tz_localize_none(series[i])]

\* a set of positions as an ascending sequence
RECURSIVE Ascending(_)
Ascending(P) ==
    IF P = {} THEN <<>>
    ELSE LET i == CHOOSE x \in P : \A y \in P : x <= y
         IN  <<i>> \o Ascending(P \ {i})

\* the selection followed by reset_index(drop=True)
SelectRowsReindexed(df, mask) ==
    LET kept == Ascending({i \in 1..Len(df.rows) : mask[i]})
    IN  [df EXCEPT !.rows = [i \in 1..Len(kept) |->
                                [df.rows[kept[i]] EXCEPT !.idx = i - 1]]]

\* df[mask]: the rows whose mask entry is True, in order, index labels kept
SelectRows(df, mask) ==
    LET kept == Ascending({i \in 1..Len(df.rows) : mask[i]})
    IN  [df EXCEPT !.rows = [i \in 1..Len(kept) |-> df.rows[kept[i]]]]

----------------------------------------------------------------------------
(* filter_df *)

\* filter_df that treats an absent repo_name column as matching no repository
filter_df_absent_matches_none(df, date_col, range, repo) ==
    IF empty(df) \/ date_col \notin df.cols THEN df
    ELSE
        LET parsed == SetColumn(df, date_col, to_datetime_series(Column(df, date_col)))
            naive == SetColumn(parsed, date_col,
                               tz_localize_none_series(Column(parsed, date_col)))
            dates == Column(naive, date_col)
            byDate == SelectRows(naive,
                          [i \in 1..Len(dates) |->
                              /\ ts_ge(dates[i], date_to_datetime(range[1]))
                              /\ ts_le(dates[i], date_to_datetime(range[2]))])
        IN  IF repo # "All"
            THEN SelectRows(byDate,
                     [i \in 1..Len(byDate.rows) |->
                         /\ "repo_name" \in byDate.cols
                         /\ byDate.rows[i].cells["repo_name"] = Cat(repo)])
            ELSE byDate

filter_df(df, date_col, range, repo) ==
    IF empty(df) \/ date_col \notin df.cols THEN df
    ELSE
        LET parsed == SetColumn(df, date_col, to_datetime_series(Column(df, date_col)))
            naive == SetColumn(parsed, date_col,
                               tz_localize_none_series(Column(parsed, date_col)))
            dates == Column(naive, date_col)
            byDate == SelectRows(naive,
                          [i \in 1..Len(dates) |->
                              /\ ts_ge(dates[i], date_to_datetime(range[1]))
                              /\ ts_le(dates[i], date_to_datetime(range[2]))])
        IN  IF repo # "All" /\ "repo_name" \in byDate.cols
            THEN SelectRows(byDate,
                     [i \in 1..Len(byDate.rows) |->
                         byDate.rows[i].cells["repo_name"] = Cat(repo)])
            ELSE byDate

----------------------------------------------------------------------------
(* Inputs of the filter harness *)

Walls == 0 .. ((MaxDay + 1) * TicksPerDay - 1)
Days == 0 .. MaxDay
RawDates == {Str(w) : w \in Walls} \cup {Bad}
RepoCells == {Cat("repoA"), Cat("repoB"), NaN}
DateRanges == {r \in Days \X Days : r[1] <= r[2]}
RepoChoices == {"All", "repoA"}

\* the cells a CSV row can hold under the given columns
CellsOf(col) == IF col = "repo_name" THEN RepoCells ELSE RawDates
RowCells(cols) == {f \in [cols -> RawDates \cup RepoCells] :
                      \A c \in cols : f[c] \in CellsOf(c)}

\* the data frames read_csv can produce with the given columns and n rows
FramesOver(cols, n) ==
    { [cols |-> cols,
       rows |-> [i \in 1..n |-> [idx |-> i - 1, cells |-> f[i]]]] :
      f \in [1..n -> RowCells(cols)] }

FilterColumnSets == {{"created_at", "repo_name"}, {"created_at"}, {"repo_name"}}

\* the frames of at most max rows
FilterFrames(max) ==
    {NoFrame} \cup
    UNION { UNION { FramesOver(cols, n) : n \in 0..max }
            : cols \in FilterColumnSets }

InitFilter ==
    /\ pc = "input"
    /\ df_in \in FilterFrames(MaxRows)
    /\ df_out = NoFrame
    /\ df_out2 = NoFrame
    /\ fig = NoFigure
    /\ col_in = <<>>
    /\ ranking = <<>>
    /\ selected_repo = "All"
    /\ date_range = <<0, 0>>
    /\ ScriptIdle
    /\ SessionIdle

\* the sidebar is set and filter_df runs on the input
FilterOnce ==
    /\ pc = "input"
    /\ \E range \in DateRanges, repo \in RepoChoices :
        /\ date_range' = range
        /\ selected_repo' = repo
        /\ df_out' = filter_df(df_in, "created_at", range, repo)
    /\ pc' = "once"
    /\ UNCHANGED <<df_in, df_out2, fig, col_in, ranking, scriptVars, sessionVars>>

\* filter_df runs on its own output with the same globals
FilterTwice ==
    /\ pc = "once"
    /\ df_out2' = filter_df(df_out, "created_at", date_range, selected_repo)
    /\ pc' = "twice"
    /\ UNCHANGED <<df_in, df_out, fig, col_in, ranking, selected_repo, date_range, scriptVars, sessionVars>>

NextFilter == FilterOnce \/ FilterTwice

SpecFilter == InitFilter /\ [][NextFilter]_vars

----------------------------------------------------------------------------
(* plot_weekly_cumulative_plotly *)

TicksPerWeek == TicksPerDay * DaysPerWeek

\* Series.dt.to_period("W") of one cell: the Monday..Sunday week of a timestamp
to_period_W(c) ==
    IF c.k \in {"ts", "tsz"} THEN c.wall \div TicksPerWeek ELSE -1

\* Series.value_counts() of the week numbers followed by sort_index(): one
\* [period, n] entry per distinct week, missing values dropped, ascending
RECURSIVE SortIndex(_, _)
SortIndex(periods, weeks) ==
    IF periods = {} THEN <<>>
    ELSE LET p == CHOOSE x \in periods : \A y \in periods : x <= y
         IN  <<[period |-> p,
                n |-> Cardinality({i \in 1..Len(weeks) : weeks[i] = p})]>>
                 \o SortIndex(periods \ {p}, weeks)

weekly_counts(weeks) ==
    SortIndex({weeks[i] : i \in 1..Len(weeks)} \ {-1}, weeks)

\* a cumsum that was left out: the series as it is
cumsum_left_out(series) == series

\* Series.cumsum(): the running total, same index
RECURSIVE cumsum(_)
cumsum(series) ==
    IF series = <<>> THEN <<>>
    ELSE LET n == Len(series)
             before == cumsum(SubSeq(series, 1, n - 1))
             prev == IF n = 1 THEN 0 ELSE before[n - 1].n
         IN  Append(before, [period |-> series[n].period, n |-> prev + series[n].n])

plot_weekly_cumulative_plotly(df, date_col) ==
    IF empty(df) \/ date_col \notin df.cols
    THEN [title |-> "No data", weekly |-> <<>>, cumulative |-> <<>>]
    ELSE
        LET parsed == SetColumn(df, date_col, to_datetime_series(Column(df, date_col)))
            dates == Column(parsed, date_col)
            weeks == [i \in 1..Len(dates) |-> to_period_W(dates[i])]
            weekly == weekly_counts(weeks)
        IN  [title |-> "Weekly and Cumulative",
             weekly |-> weekly,
             cumulative |-> cumsum(weekly)]

(* Inputs of the plot harness: raw CSV frames and frames filter_df produced *)

PlotWalls == {w * TicksPerWeek + o : w \in 0..MaxWeek, o \in {0, TicksPerWeek - 1}}
PlotRawDates == {Str(w) : w \in PlotWalls} \cup {Bad}
PlotParsedDates == {Ts(w) : w \in PlotWalls} \cup {NaT}

PlotFramesOver(cells, n) ==
    { [cols |-> {"created_at"},
       rows |-> [i \in 1..n |-> [idx |-> i - 1,
                                 cells |-> [c \in {"created_at"} |-> f[i]]]]] :
      f \in [1..n -> cells] }

\* the frames of at most max rows
PlotFrames(max) ==
    {NoFrame, [cols |-> {"repo_name"},
               rows |-> <<[idx |-> 0, cells |-> [c \in {"repo_name"} |-> Cat("repoA")]]>>]}
    \cup UNION { PlotFramesOver(PlotRawDates, n) \cup PlotFramesOver(PlotParsedDates, n)
                 : n \in 0..max }

InitPlot ==
    /\ pc = "input"
    /\ df_in \in PlotFrames(MaxPlotRows)
    /\ df_out = NoFrame
    /\ df_out2 = NoFrame
    /\ fig = NoFigure
    /\ col_in = <<>>
    /\ ranking = <<>>
    /\ selected_repo = "All"
    /\ date_range = <<0, 0>>
    /\ ScriptIdle
    /\ SessionIdle

PlotWeekly ==
    /\ pc = "input"
    /\ fig' = plot_weekly_cumulative_plotly(df_in, "created_at")
    /\ pc' = "plotted"
    /\ UNCHANGED <<df_in, df_out, df_out2, col_in, ranking, selected_repo, date_range, scriptVars, sessionVars>>

NextPlot == PlotWeekly

SpecPlot == InitPlot /\ [][NextPlot]_vars

----------------------------------------------------------------------------
(* Rankings: value_counts().nlargest(10).sort_values(ascending=True)          *)
(*                                                                            *)
(* A Series of counts is a sequence of [value, n] entries with distinct       *)
(* values.  Series.sort_values() sorts with the default kind "quicksort",     *)
(* which is not stable: entries with equal keys come out in an order the      *)
(* numpy build decides.  A sort is therefore modelled by the set of its       *)
(* possible outcomes, and so is every operation built on one.                 *)

Range(seq) == {seq[i] : i \in 1..Len(seq)}

\* the possible outcomes of an unstable sort of the entries S by ascending key
RECURSIVE SortOutcomes(_, _)
SortOutcomes(S, key) ==
    IF S = {} THEN {<<>>}
    ELSE LET least == {e \in S : \A f \in S : key[e] <= key[f]}
         IN  UNION { {<<e>> \o t : t \in SortOutcomes(S \ {e}, key)} : e \in least }

\* Series.sort_values(ascending=...) of a Series of counts
sort_values(series, ascending) ==
    SortOutcomes(Range(series),
                 [e \in Range(series) |-> IF ascending THEN e.n ELSE 0 - e.n])

\* the distinct non-missing values of a column in order of first appearance
FirstSeen(col) ==
    LET first == Ascending({i \in 1..Len(col) :
                     /\ col[i].k = "cat"
                     /\ \A j \in 1..(i - 1) : col[j] # col[i]})
    IN  [i \in 1..Len(first) |-> col[first[i]].s]

\* the occurrences of each distinct value, missing values dropped
counts(col) ==
    LET seen == FirstSeen(col)
    IN  [i \in 1..Len(seen) |->
            [value |-> seen[i],
             n |-> Cardinality({j \in 1..Len(col) : col[j] = Cat(seen[i])})]]

\* Series.value_counts(): the counts sorted descending
value_counts(col) == sort_values(counts(col), FALSE)

\* a mergesort by descending count: equal counts keep the order of the Series
RECURSIVE StableDescending(_)
StableDescending(series) ==
    IF series = <<>> THEN <<>>
    ELSE LET i == CHOOSE a \in 1..Len(series) :
                    /\ \A b \in 1..Len(series) : series[a].n >= series[b].n
                    /\ \A b \in 1..(a - 1) : series[b].n < series[a].n
         IN  <<series[i]>> \o
             StableDescending(SubSeq(series, 1, i - 1) \o SubSeq(series, i + 1, Len(series)))

\* Series.nlargest(n), keep="first": with n >= len(series) pandas takes the head
\* of sort_values(ascending=False), otherwise the first n of a mergesort
nlargest(series, n) ==
    IF n >= Len(series)
    THEN sort_values(series, FALSE)
    ELSE {SubSeq(StableDescending(series), 1, n)}

\* the chart's ranking with the final sort left out: largest count first
top_chart_descending(col) ==
    UNION { nlargest(vc, TopN) : vc \in value_counts(col) }

\* df[col].value_counts().nlargest(10).sort_values(ascending=True)
top_chart(col) ==
    UNION { UNION { sort_values(top, TRUE) : top \in nlargest(vc, TopN) }
            : vc \in value_counts(col) }

----------------------------------------------------------------------------
(* The script run: load, sidebar, weekly charts, top charts, summary table *)

\* the timestamp column of each table in the weekly-chart loop
DateCol(t) ==
    CASE t = "stars" -> "starred_at"
      [] t = "commits" -> "date"
      [] OTHER -> "created_at"

\* a load_all_tables() without st.cache_data: every call reads S3
cache_never_hits(c) == FALSE

\* st.cache_data: a call of load_all_tables() is served from the cache once
\* the cache holds its result
cache_hit(c) == c.filled

\* load_all_tables(): every table read from S3, a failed read degraded to
\* pd.DataFrame()
load_all_tables(objects, failed) ==
    [t \in TableNames |-> IF t \in failed THEN NoFrame ELSE objects[t]]

\* the repository names the selectbox offers beside "All"
RepoValues(tables) ==
    UNION { {tables[t].rows[i].cells["repo_name"] : i \in 1..Len(tables[t].rows)}
            : t \in {u \in TableNames :
                        ~empty(tables[u]) /\ "repo_name" \in tables[u].cols} }

\* sorted() of text mixed with NaN raises TypeError
repo_options_raises(tables) ==
    NaN \in RepoValues(tables) /\ RepoValues(tables) # {NaN}

repo_options(tables) == {c.s : c \in RepoValues(tables) \ {NaN}}

\* the tz-naive timestamps of the created_at, starred_at and date columns
AllTimestamps(tables) ==
    UNION { UNION { {tz_localize_none(to_datetime(tables[t].rows[i].cells[col])).wall :
                       i \in {j \in 1..Len(tables[t].rows) :
                                to_datetime(tables[t].rows[j].cells[col]).k # "nat"}}
                    : col \in {"created_at", "starred_at", "date"} \cap tables[t].cols }
            : t \in TableNames }

Min(S) == CHOOSE x \in S : \A y \in S : x <= y
Max(S) == CHOOSE x \in S : \A y \in S : x >= y

compute_min_date(tables) == Min(AllTimestamps(tables) \cup {FarFuture})
compute_max_date(tables) == Max(AllTimestamps(tables) \cup {FarPast})

\* st.sidebar.date_input(..., (min_date, max_date)): the user's range once the
\* widget was used, else the default value, as calendar dates
date_input(widget, lo, hi) ==
    IF widget.touched THEN widget.value ELSE <<date_of(lo), date_of(hi)>>

\* st.sidebar.selectbox: the user's choice once the widget was used, else the
\* first option
selectbox(widget) == IF widget.touched THEN widget.value ELSE "All"

\* one of the five top-10 charts: the ranking of a column, or st.info
chart_outcomes(df, col) ==
    IF ~empty(df) /\ col \in df.cols THEN top_chart(Column(df, col)) ELSE {<<>>}

\* series.get with the default left out: a missing key is not counted as 0
series_get_no_default(series, v) ==
    IF \E i \in 1..Len(series) : series[i].value = v
    THEN series[CHOOSE i \in 1..Len(series) : series[i].value = v].n
    ELSE 0 - 1

\* Series.get(value, 0) on a Series of counts
series_get(series, v) ==
    IF \E i \in 1..Len(series) : series[i].value = v
    THEN series[CHOOSE i \in 1..Len(series) : series[i].value = v].n
    ELSE 0

\* set(counts.nlargest(10).index): the possible top-10 sets of a column
top_sets(col) ==
    { {t[i].value : i \in 1..Len(t)} :
      t \in UNION { nlargest(vc, TopN) : vc \in value_counts(col) } }

\* pd.to_datetime(df[df[user_col] == user][date_col]).dt.tz_localize(None).max()
last_date(df, user_col, date_col, user) ==
    LET walls == {tz_localize_none(to_datetime(df.rows[i].cells[date_col])).wall :
                    i \in {j \in 1..Len(df.rows) :
                             /\ df.rows[j].cells[user_col] = Cat(user)
                             /\ to_datetime(df.rows[j].cells[date_col]).k # "nat"}}
    IN  IF walls = {} THEN NaT ELSE Ts(Max(walls))

\* the row appended for one user of all_top
contributor_row(tables, user) ==
    LET last == {last_date(tables["commits"], "author_login", "date", user),
                 last_date(tables["issues"], "user", "created_at", user),
                 last_date(tables["pr"], "user", "created_at", user)} \ {NaT}
    IN  [User |-> user,
         Commits |-> series_get(counts(Column(tables["commits"], "author_login")), user),
         Issues |-> series_get(counts(Column(tables["issues"], "user")), user),
         PRs |-> series_get(counts(Column(tables["pr"], "user")), user),
         Last |-> IF last = {} THEN Cell("none", 0, "")
                  ELSE Cell("date", date_of(Max({c.wall : c \in last})), "")]

\* the columns lines 218-220 and 238-239 index without a check
summary_raises(tables) ==
    \/ ~({"author_login", "date"} \subseteq tables["commits"].cols)
    \/ "user" \notin tables["issues"].cols
    \/ "user" \notin tables["pr"].cols

summary_loop_raises(tables) ==
    \/ "created_at" \notin tables["issues"].cols
    \/ "created_at" \notin tables["pr"].cols

\* sort_values(by=["Commits", "Issues", "PRs"], ascending=False): the possible
\* orders of the rows; rows equal in all three keep the order of the set walk
sorted_rows(rows, tables) ==
    LET base == Len(tables["commits"].rows) + Len(tables["issues"].rows)
                + Len(tables["pr"].rows) + 1
    IN  SortOutcomes(rows,
            [r \in rows |-> 0 - ((r.Commits * base + r.Issues) * base + r.PRs)])

\* line 103: data = load_all_tables()
LoadTables ==
    /\ pc = "start"
    /\ IF cache_hit(cache)
       THEN /\ data' = cache.value
            /\ UNCHANGED <<cache, fetches>>
       ELSE \E failed \in SUBSET TableNames :
            /\ data' = load_all_tables(bucket, failed)
            /\ cache' = [filled |-> TRUE, value |-> data']
            /\ fetches' = fetches + Cardinality(TableNames)
    /\ pc' = "sidebar"
    /\ UNCHANGED <<selected_repo, date_range, min_date, max_date, filtered, figs,
                   top_charts, tops, contrib_df, bucket, renders, repo_widget,
                   range_widget, harnessVars>>

\* lines 105-122: the sidebar widgets
Sidebar ==
    /\ pc = "sidebar"
    /\ IF repo_options_raises(data)
       THEN /\ pc' = "raised"
            /\ UNCHANGED <<selected_repo, min_date, max_date, date_range>>
       ELSE /\ selected_repo' = selectbox(repo_widget)
            /\ min_date' = compute_min_date(data)
            /\ max_date' = compute_max_date(data)
            /\ date_range' = date_input(range_widget, min_date', max_date')
            /\ pc' = "charts"
    /\ UNCHANGED <<data, filtered, figs, top_charts, tops, contrib_df, sessionVars,
                   harnessVars>>

\* lines 124-150: the metrics and the five weekly charts
WeeklyCharts ==
    /\ pc = "charts"
    /\ filtered' = [t \in TableNames |->
                       filter_df(data[t], DateCol(t), date_range, selected_repo)]
    /\ figs' = [t \in TableNames |->
                   plot_weekly_cumulative_plotly(filtered'[t], DateCol(t))]
    /\ pc' = "top_repos"
    /\ UNCHANGED <<data, selected_repo, date_range, min_date, max_date, top_charts,
                   tops, contrib_df, sessionVars, harnessVars>>

\* lines 152-174: top repositories by stars and by commits
TopRepositories ==
    /\ pc = "top_repos"
    /\ \E s \in chart_outcomes(data["stars"], "repo_name") :
       \E c \in chart_outcomes(data["commits"], "repo_name") :
          top_charts' = [top_charts EXCEPT !["repos_by_stars"] = s,
                                           !["repos_by_commits"] = c]
    /\ pc' = "top_contributors"
    /\ UNCHANGED <<data, selected_repo, date_range, min_date, max_date, filtered, figs,
                   tops, contrib_df, sessionVars, harnessVars>>

\* lines 176-215: top contributors by commits, PRs and issues
TopContributors ==
    /\ pc = "top_contributors"
    /\ \E c \in chart_outcomes(data["commits"], "author_login") :
       \E p \in chart_outcomes(data["pr"], "user") :
       \E i \in chart_outcomes(data["issues"], "user") :
          top_charts' = [top_charts EXCEPT !["users_by_commits"] = c,
                                           !["users_by_prs"] = p,
                                           !["users_by_issues"] = i]
    /\ pc' = "summary"
    /\ UNCHANGED <<data, selected_repo, date_range, min_date, max_date, filtered, figs,
                   tops, contrib_df, sessionVars, harnessVars>>

\* lines 217-252: the contributor summary table
ContributorTable ==
    /\ pc = "summary"
    /\ IF summary_raises(data)
       THEN pc' = "raised" /\ UNCHANGED <<tops, contrib_df>>
       ELSE \E top_committers \in top_sets(Column(data["commits"], "author_login")) :
            \E top_issuers \in top_sets(Column(data["issues"], "user")) :
            \E top_prs \in top_sets(Column(data["pr"], "user")) :
               LET all_top == top_committers \cup top_issuers \cup top_prs
                   rows == {contributor_row(data, user) : user \in all_top}
               IN  /\ tops' = [committers |-> top_committers,
                               issuers |-> top_issuers, prs |-> top_prs]
                   /\ IF all_top = {} \/ summary_loop_raises(data)
                      THEN pc' = "raised" /\ UNCHANGED contrib_df
                      ELSE /\ contrib_df' \in sorted_rows(rows, data)
                           /\ pc' = "done"
    /\ UNCHANGED <<data, selected_repo, date_range, min_date, max_date, filtered, figs,
                   top_charts, sessionVars, harnessVars>>

\* the script's globals of a run that has not started
FreshScript ==
    /\ data' = [t \in TableNames |-> NoFrame]
    /\ min_date' = 0
    /\ max_date' = 0
    /\ filtered' = [t \in TableNames |-> NoFrame]
    /\ figs' = [t \in TableNames |-> NoFigure]
    /\ top_charts' = [c \in ChartNames |-> <<>>]
    /\ tops' = NoTops
    /\ contrib_df' = <<>>
    /\ selected_repo' = "All"
    /\ date_range' = <<0, 0>>

\* the user picks a repository: Streamlit reruns the script
PickRepository ==
    /\ pc \in {"done", "raised"}
    /\ renders < MaxRenders
    /\ \E r \in {"All"} \cup repo_options(data) :
          repo_widget' = [touched |-> TRUE, value |-> r]
    /\ renders' = renders + 1
    /\ pc' = "start"
    /\ FreshScript
    /\ UNCHANGED <<bucket, cache, fetches, range_widget, harnessVars>>

\* the user picks a date range: Streamlit reruns the script
PickDateRange ==
    /\ pc \in {"done", "raised"}
    /\ renders < MaxRenders
    /\ \E r \in DateRanges : range_widget' = [touched |-> TRUE, value |-> r]
    /\ renders' = renders + 1
    /\ pc' = "start"
    /\ FreshScript
    /\ UNCHANGED <<bucket, cache, fetches, repo_widget, harnessVars>>

\* the user reruns the script without touching a widget
Rerun ==
    /\ pc \in {"done", "raised"}
    /\ renders < MaxRenders
    /\ renders' = renders + 1
    /\ pc' = "start"
    /\ FreshScript
    /\ UNCHANGED <<bucket, cache, fetches, repo_widget, range_widget, harnessVars>>

(* Inputs of the ranking harness: a column is a free tail of at most MaxTail *)
(* cells, alone or before or after a block of TopN - 1 users of which user   *)
(* "uK" occurs K times, so that more than TopN distinct values occur.       *)

Repeat(c, k) == [i \in 1..k |-> c]

FillerBlock ==
    Repeat(Cat("u2"), 2) \o Repeat(Cat("u3"), 3) \o Repeat(Cat("u4"), 4)
    \o Repeat(Cat("u5"), 5) \o Repeat(Cat("u6"), 6) \o Repeat(Cat("u7"), 7)
    \o Repeat(Cat("u8"), 8) \o Repeat(Cat("u9"), 9) \o Repeat(Cat("u10"), 10)

TailCells == {Cat("a"), Cat("b"), Cat("c"), NaN}
Tails(max) == UNION { [1..n -> TailCells] : n \in 0..max }

RankColumns(max) ==
    Tails(max) \cup {FillerBlock \o t : t \in Tails(max)}
               \cup {t \o FillerBlock : t \in Tails(max)}

InitRank ==
    /\ pc = "input"
    /\ col_in \in RankColumns(MaxTail)
    /\ ranking = <<>>
    /\ df_in = NoFrame
    /\ df_out = NoFrame
    /\ df_out2 = NoFrame
    /\ fig = NoFigure
    /\ selected_repo = "All"
    /\ date_range = <<0, 0>>
    /\ ScriptIdle
    /\ SessionIdle

TopChart ==
    /\ pc = "input"
    /\ ranking' \in top_chart(col_in)
    /\ pc' = "ranked"
    /\ UNCHANGED <<df_in, df_out, df_out2, fig, col_in, selected_repo, date_range,
                   scriptVars, sessionVars>>

NextRank == TopChart

SpecRank == InitRank /\ [][NextRank]_vars

(* The S3 bucket of the script run: five small tables whose late rows fall *)
(* h ticks after midnight                                                  *)

MkFrame(cols, cellrows) ==
    [cols |-> cols,
     rows |-> [i \in 1..Len(cellrows) |-> [idx |-> i - 1, cells |-> cellrows[i]]]]

LastDay == MaxDay * TicksPerDay

Objects(h) ==
    [t \in TableNames |->
      CASE t = "stars" ->
             MkFrame({"repo_name", "starred_at"},
               <<[repo_name |-> Cat("repoA"), starred_at |-> Str(0)],
                 [repo_name |-> Cat("repoB"), starred_at |-> Str(LastDay + h)],
                 [repo_name |-> Cat("repoA"), starred_at |-> Bad]>>)
        [] t = "forks" ->
             MkFrame({"repo_name", "created_at"},
               <<[repo_name |-> Cat("repoA"), created_at |-> Str(0)],
                 [repo_name |-> Cat("repoB"), created_at |-> Str(LastDay)]>>)
        [] t = "commits" ->
             MkFrame({"repo_name", "author_login", "date"},
               <<[repo_name |-> Cat("repoA"), author_login |-> Cat("alice"), date |-> Str(h)],
                 [repo_name |-> Cat("repoA"), author_login |-> Cat("bob"), date |-> Str(LastDay)],
                 [repo_name |-> Cat("repoB"), author_login |-> Cat("alice"), date |-> Str(LastDay + h)],
                 [repo_name |-> Cat("repoB"), author_login |-> NaN, date |-> Bad]>>)
        [] t = "issues" ->
             MkFrame({"repo_name", "user", "created_at"},
               <<[repo_name |-> Cat("repoA"), user |-> Cat("carol"), created_at |-> Str(0)],
                 [repo_name |-> Cat("repoB"), user |-> Cat("carol"), created_at |-> Str(LastDay)],
                 [repo_name |-> Cat("repoA"), user |-> Cat("bob"), created_at |-> Bad]>>)
        [] OTHER ->
             MkFrame({"repo_name", "user", "created_at"},
               <<[repo_name |-> Cat("repoA"), user |-> Cat("alice"), created_at |-> Str(LastDay)],
                 [repo_name |-> Cat("repoB"), user |-> Cat("dave"), created_at |-> Str(LastDay + h)]>>)]

Buckets == {Objects(h) : h \in 0..(TicksPerDay - 1)}

HarnessIdle ==
    /\ df_in = NoFrame
    /\ df_out = NoFrame
    /\ df_out2 = NoFrame
    /\ fig = NoFigure
    /\ col_in = <<>>
    /\ ranking = <<>>

\* a fresh process whose first script run is about to start
Init ==
    /\ pc = "start"
    /\ bucket \in Buckets
    /\ cache = [filled |-> FALSE, value |-> [t \in TableNames |-> NoFrame]]
    /\ fetches = 0
    /\ renders = 1
    /\ repo_widget = [touched |-> FALSE, value |-> "All"]
    /\ range_widget = [touched |-> FALSE, value |-> <<0, 0>>]
    /\ selected_repo = "All"
    /\ date_range = <<0, 0>>
    /\ ScriptIdle
    /\ HarnessIdle

Next ==
    \/ LoadTables
    \/ Sidebar
    \/ WeeklyCharts
    \/ TopRepositories
    \/ TopContributors
    \/ ContributorTable
    \/ PickRepository
    \/ PickDateRange
    \/ Rerun

Spec == Init /\ [][Next]_vars

(* Inputs of the summary harness: the three tables the summary reads, their *)
(* user columns a free tail, for the commits alone or after the fixed block  *)

SummaryDate(i) == IF i % 3 = 0 THEN Bad ELSE Str(i % (TicksPerDay + 1))

UsersFrame(user_col, date_col, users) ==
    [cols |-> {user_col, date_col},
     rows |-> [i \in 1..Len(users) |->
                 [idx |-> i - 1,
                  cells |-> [c \in {user_col, date_col} |->
                                IF c = user_col THEN users[i] ELSE SummaryDate(i)]]]]

ContribTails(cells, max) == UNION { [1..n -> cells] : n \in 0..max }

SummaryTables(max) ==
    { [t \in TableNames |->
         CASE t = "commits" -> UsersFrame("author_login", "date", c)
           [] t = "issues" -> UsersFrame("user", "created_at", i)
           [] t = "pr" -> UsersFrame("user", "created_at", p)
           [] OTHER -> NoFrame] :
      c \in ContribTails({Cat("a"), Cat("b"), NaN}, max)
            \cup {FillerBlock \o t : t \in ContribTails({Cat("a"), Cat("b"), NaN}, max)},
      i \in ContribTails({Cat("a"), Cat("c")}, max),
      p \in ContribTails({Cat("a"), Cat("u2")}, 1) }

InitSummary ==
    /\ pc = "summary"
    /\ data \in SummaryTables(MaxContribTail)
    /\ min_date = 0
    /\ max_date = 0
    /\ filtered = [t \in TableNames |-> NoFrame]
    /\ figs = [t \in TableNames |-> NoFigure]
    /\ top_charts = [c \in ChartNames |-> <<>>]
    /\ tops = NoTops
    /\ contrib_df = <<>>
    /\ selected_repo = "All"
    /\ date_range = <<0, 0>>
    /\ SessionIdle
    /\ HarnessIdle

NextSummary == ContributorTable

SpecSummary == InitSummary /\ [][NextSummary]_vars

----------------------------------------------------------------------------
(* Properties of filter_df, checked under SpecFilter *)

\* the index labels of a frame's rows, in row order
Labels(df) == [i \in 1..Len(df.rows) |-> df.rows[i].idx]

\* the row of df carrying index label l
HasLabel(df, l) == \E i \in 1..Len(df.rows) : df.rows[i].idx = l

\* the raw value parses to a timestamp within [start, end] of the date range
ParsesWithin(c, range) ==
    /\ c.k = "str"
    /\ range[1] * TicksPerDay <= c.wall
    /\ c.wall <= range[2] * TicksPerDay

\* C3: filter_df is idempotent: applied to its own output with the same date
\* range and repository it returns that output
C3_FilterIdempotent ==
    pc = "twice" => df_out2 = df_out

C3_Witness ==
    /\ pc = "twice"
    /\ selected_repo # "All"
    /\ Len(df_out.rows) >= 1
    /\ Len(df_out.rows) < Len(df_in.rows)
    /\ df_out2 = df_out

\* C4 as stated: without a repo_name column filter_df returns the original
\* rows, whatever the date range and the selected repository
C4_OriginalRowsUnchanged ==
    (pc = "once" /\ "repo_name" \notin df_in.cols) => Labels(df_out) = Labels(df_in)

\* C4 amended: without a repo_name column the selected repository has no
\* effect: filter_df keeps exactly the rows whose date parses to a timestamp
\* within the date range (every row when the frame is empty or has no date
\* column), in input order
C4_RepoFilterInapplicable ==
    (pc = "once" /\ "repo_name" \notin df_in.cols) =>
        LET dated == ~empty(df_in) /\ "created_at" \in df_in.cols
            keep(r) == dated => ParsesWithin(r.cells["created_at"], date_range)
        IN  Labels(df_out) = Labels([df_in EXCEPT !.rows = SelectSeq(df_in.rows, keep)])

C4_Witness ==
    /\ pc = "once"
    /\ df_in.cols = {"created_at"}
    /\ selected_repo = "repoA"
    /\ Len(df_in.rows) = 2
    /\ Len(df_out.rows) = 1

\* C5: the output of filter_df is a subset of the input rows in input order:
\* its index labels are strictly increasing labels of the input, and a kept row
\* carries the input row's cells (the date column parsed, every other cell as is)
C5_FilterStableSubset ==
    pc \in {"once", "twice"} =>
        /\ df_out.cols = df_in.cols
        /\ \A i \in 1..Len(df_out.rows) : \A j \in 1..Len(df_out.rows) :
              i < j => df_out.rows[i].idx < df_out.rows[j].idx
        /\ \A i \in 1..Len(df_out.rows) :
              \E j \in 1..Len(df_in.rows) :
                /\ df_in.rows[j].idx = df_out.rows[i].idx
                /\ \A c \in df_in.cols :
                     LET a == df_in.rows[j].cells[c]
                         b == df_out.rows[i].cells[c]
                     IN  \/ b = a
                         \/ c = "created_at" /\ a.k = "str" /\ b.k = "ts" /\ b.wall = a.wall

C5_Witness ==
    /\ pc = "once"
    /\ Len(df_in.rows) = 2
    /\ Labels(df_out) = <<1>>
    /\ df_out.rows[1].cells["created_at"].k = "ts"

\* C9: for a non-empty frame with the date column, a row is kept iff its date
\* parses to a timestamp t with start <= t <= end and, when a repository other
\* than "All" is selected and the frame has a repo_name column, its repo_name
\* is the selected repository
C9_FilterMembership ==
    (pc = "once" /\ ~empty(df_in) /\ "created_at" \in df_in.cols) =>
        \A j \in 1..Len(df_in.rows) :
            HasLabel(df_out, df_in.rows[j].idx) <=>
                /\ ParsesWithin(df_in.rows[j].cells["created_at"], date_range)
                /\ (selected_repo # "All" /\ "repo_name" \in df_in.cols) =>
                      /\ df_in.rows[j].cells["repo_name"].k = "cat"
                      /\ df_in.rows[j].cells["repo_name"].s = selected_repo

\* a row exactly at the end of the range is kept, one of another repository is not
C9_Witness ==
    /\ pc = "once"
    /\ selected_repo = "repoA"
    /\ df_in.cols = {"created_at", "repo_name"}
    /\ Len(df_in.rows) = 2
    /\ df_in.rows[1].cells["created_at"] = Str(date_range[2] * TicksPerDay)
    /\ df_in.rows[2].cells["created_at"] = Str(date_range[2] * TicksPerDay)
    /\ df_in.rows[2].cells["repo_name"] = Cat("repoB")
    /\ date_range[1] < date_range[2]
    /\ Labels(df_out) = <<0>>

----------------------------------------------------------------------------
(* Properties of plot_weekly_cumulative_plotly, checked under SpecPlot *)

\* the rows of df whose date cell parses to a timestamp
ParseableRows(df, col) ==
    {i \in 1..Len(df.rows) : df.rows[i].cells[col].k \in {"str", "ts", "tsz"}}

\* the rows of df whose timestamp falls in week p
RowsInWeek(df, col, p) ==
    {i \in ParseableRows(df, col) : df.rows[i].cells[col].wall \div TicksPerWeek = p}

\* C2: for a non-empty frame with the date column the cumulative series runs
\* over the weekly buckets in chronological order, is non-decreasing, each entry
\* is the previous entry plus that week's count, and its final value is the
\* number of rows whose date parses to a timestamp
C2_CumulativeSeries ==
    (pc = "plotted" /\ ~empty(df_in) /\ "created_at" \in df_in.cols) =>
        LET cum == fig.cumulative
            n == Len(cum)
        IN  /\ \A i \in 1..n : \A j \in 1..n : i < j => cum[i].period < cum[j].period
            /\ \A i \in 1..n :
                 cum[i].n = (IF i = 1 THEN 0 ELSE cum[i - 1].n)
                            + Cardinality(RowsInWeek(df_in, "created_at", cum[i].period))
            /\ \A i \in 2..n : cum[i - 1].n <= cum[i].n
            /\ Cardinality(ParseableRows(df_in, "created_at"))
                 = (IF n = 0 THEN 0 ELSE cum[n].n)

\* two weekly buckets, one of them with two rows, and an unparsable row
C2_Witness ==
    /\ pc = "plotted"
    /\ Len(df_in.rows) = 3
    /\ df_in.rows[2].cells["created_at"] = Bad
    /\ Len(fig.cumulative) = 2
    /\ fig.cumulative[2].n = 2

----------------------------------------------------------------------------
(* Properties of the top-10 rankings, checked under SpecRank *)

\* the distinct non-missing values of a column
Distinct(col) == {col[i].s : i \in {j \in 1..Len(col) : col[j].k = "cat"}}

\* the occurrences of value v in a column
Occurrences(col, v) ==
    Cardinality({i \in 1..Len(col) : col[i].k = "cat" /\ col[i].s = v})

\* the position at which value v first occurs in a column
FirstAt(col, v) ==
    CHOOSE i \in 1..Len(col) :
        /\ col[i].k = "cat" /\ col[i].s = v
        /\ \A j \in 1..(i - 1) : ~(col[j].k = "cat" /\ col[j].s = v)

\* the ranking holds min(10, distinct values) pairs of distinct values, each
\* with its number of occurrences, and no value left out occurs more often
\* than a value that is in
IsTopSelection(r, col) ==
    /\ Len(r) = (IF Cardinality(Distinct(col)) < TopN
                 THEN Cardinality(Distinct(col)) ELSE TopN)
    /\ \A i \in 1..Len(r) : r[i].value \in Distinct(col)
                            /\ r[i].n = Occurrences(col, r[i].value)
    /\ \A i \in 1..Len(r) : \A j \in 1..Len(r) : i # j => r[i].value # r[j].value
    /\ \A v \in Distinct(col) \ {r[i].value : i \in 1..Len(r)} :
          \A i \in 1..Len(r) : Occurrences(col, v) <= r[i].n

----------------------------------------------------------------------------
(* Properties of the script run, checked under Spec *)

\* C1: whatever subset of the five fetches failed, the failed tables are
\* empty frames and the script run does not raise
C1_FetchFailureNotFatal ==
    (\E t \in TableNames : data[t] = NoFrame) => pc # "raised"

\* C7: only the first script run of a process fetches: every later run makes
\* no S3 call and gets from the cache the tables the first run loaded
C7_LaterRendersServedFromCache ==
    [][ /\ renders >= 2 => fetches' = fetches
        /\ cache.filled => cache' = cache
        /\ (renders >= 2 /\ pc = "start" /\ pc' = "sidebar") => data' = cache.value
      ]_vars

\* a second run that ran to its end on cached tables, one of them a failed fetch
C7_Witness ==
    /\ renders = 2
    /\ pc = "done"
    /\ fetches = Cardinality(TableNames)
    /\ data["stars"] = NoFrame
    /\ data = cache.value

\* C10: with the sidebar at its defaults no row with a parseable timestamp is
\* filtered out of any of the five tables
C10_DefaultsExcludeNothing ==
    (/\ pc \in {"top_repos", "top_contributors", "summary", "done"}
     /\ ~repo_widget.touched
     /\ ~range_widget.touched) =>
        \A t \in TableNames :
            \A i \in 1..Len(data[t].rows) :
                data[t].rows[i].cells[DateCol(t)].k = "str"
                    => HasLabel(filtered[t], data[t].rows[i].idx)

----------------------------------------------------------------------------
(* Properties of the contributor summary, checked under SpecSummary *)

\* S is a top-10 set of the column: min(10, distinct values) values, none of
\* them occurring less often than a value left out
IsTopSet(S, col) ==
    /\ S \subseteq Distinct(col)
    /\ Cardinality(S) = (IF Cardinality(Distinct(col)) < TopN
                         THEN Cardinality(Distinct(col)) ELSE TopN)
    /\ \A v \in Distinct(col) \ S : \A w \in S : Occurrences(col, v) <= Occurrences(col, w)

\* C6: every identity in the union of the top-10 commit authors, issue openers
\* and PR authors has exactly one row of the summary, and each row carries the
\* identity's commit, issue and PR counts, 0 where it has no records
C6_SummaryCoversUnion ==
    pc = "done" =>
        LET authors == Column(data["commits"], "author_login")
            openers == Column(data["issues"], "user")
            pullers == Column(data["pr"], "user")
        IN  /\ IsTopSet(tops.committers, authors)
            /\ IsTopSet(tops.issuers, openers)
            /\ IsTopSet(tops.prs, pullers)
            /\ \A u \in tops.committers \cup tops.issuers \cup tops.prs :
                  Cardinality({i \in 1..Len(contrib_df) : contrib_df[i].User = u}) = 1
            /\ \A i \in 1..Len(contrib_df) :
                  /\ contrib_df[i].Commits = Occurrences(authors, contrib_df[i].User)
                  /\ contrib_df[i].Issues = Occurrences(openers, contrib_df[i].User)
                  /\ contrib_df[i].PRs = Occurrences(pullers, contrib_df[i].User)

\* more than ten commit authors, and an identity that is top-10 in issues only
C6_Witness ==
    /\ pc = "done"
    /\ Cardinality(Distinct(Column(data["commits"], "author_login"))) > TopN
    /\ \E i \in 1..Len(contrib_df) :
          /\ contrib_df[i].Commits = 0
          /\ contrib_df[i].PRs = 0
          /\ contrib_df[i].Issues > 0
          /\ contrib_df[i].User \notin tops.committers \cup tops.prs

====
